---- MODULE Spec2Model ----
(***************************************************************************)
(* ColorSnap (src-tauri): the pick-mode controller of lib.rs and the       *)
(* cursor / sampling routines of color_picker.rs, as a state machine.      *)
(*                                                                         *)
(* Every command, shortcut, tray and setup handler is one action.  A       *)
(* handler's body is the composition, in source order, of the statements   *)
(* it executes, each a function on a "frame" record holding the process    *)
(* state the handler reads and writes plus the log of the external calls   *)
(* it has issued so far.                                                   *)
(***************************************************************************)
EXTENDS Integers, Sequences, FiniteSets, TLC

VARIABLES
    phase,              \* "starting" (before setup), "running", "exited", "aborted"
    PICK_MODE_ACTIVE,   \* lib.rs:15
    CURSOR_CHANGED,     \* color_picker.rs:6
    ACTIVE_SHORTCUT,    \* lib.rs:18  (<<>> = None, << <<shortcut, label>> >> = Some)
    escapeRegistered,   \* whether lib.rs:236 registered the Escape shortcut
    mainWindow,         \* visibility of the webview window "main"
    osCursor,           \* the system-wide pointer image: "default" or "custom"
    osRestoreFailed,    \* some SPI_SETCURSORS call of this process reported failure
    restoresForInstall, \* SPI_SETCURSORS calls of restore_default_cursor since the
                        \* last successful SetSystemCursor
    calls,              \* external calls issued by the handler that ran last
    last,               \* what the handler that ran last was, saw and returned
    restorer,           \* SpecConc only: position of each worker thread inside
                        \* restore_default_cursor
    icon,               \* the RGBA bytes of the embedded icon (color_picker.rs:79)
    inbox,              \* invocations sent by the webview and not handled yet
    historyFile         \* color_history.json: <<>> when missing, else <<its text>>

vars == <<phase, PICK_MODE_ACTIVE, CURSOR_CHANGED, ACTIVE_SHORTCUT, escapeRegistered,
          mainWindow, osCursor, osRestoreFailed, restoresForInstall, calls, last,
          restorer, icon, inbox, historyFile>>

\* what the pick-mode handlers neither read nor write
outside == <<inbox, historyFile>>

-----------------------------------------------------------------------------
(* Bounds and program constants *)

\* number of threads that may run restore_default_cursor concurrently (SpecConc)
NumThreads == 2

\* The GDI sentinel GetPixel returns on failure, 0xFFFFFFFF, written as the
\* 32-bit two's-complement integer with that bit pattern; every valid COLORREF
\* 0x00BBGGRR is in 0..2^24-1.
CLR_INVALID == -1

Threads == 1..NumThreads

-----------------------------------------------------------------------------
(* Shortcuts *)

Shortcut(mods, key) == [mods |-> mods, key |-> key]

pick_shortcut_candidates ==
    << <<Shortcut({"SUPER", "SHIFT"}, "KeyC"), "Win+Shift+C">>,
       <<Shortcut({"CONTROL", "SHIFT"}, "KeyC"), "Ctrl+Shift+C">>,
       <<Shortcut({"SUPER", "SHIFT"}, "KeyP"), "Win+Shift+P">>,
       <<Shortcut({"CONTROL", "ALT"}, "KeyC"), "Ctrl+Alt+C">>,
       <<Shortcut({"SUPER", "ALT"}, "KeyC"), "Win+Alt+C">> >>

escape_shortcut == Shortcut({}, "Escape")

ShortcutStates == {"Pressed", "Released"}

\* The candidate loop of setup: the first candidate, in order, whose registration
\* succeeds (those in `free`) becomes ACTIVE_SHORTCUT; None when all fail.
RECURSIVE RegisterFirst(_, _)
RegisterFirst(i, free) ==
    IF i > Len(pick_shortcut_candidates) THEN <<>>
    ELSE IF i \in free THEN <<pick_shortcut_candidates[i]>>
    ELSE RegisterFirst(i + 1, free)

\* The shortcuts the OS can deliver to the handler: those registered.
RegisteredShortcuts ==
    (IF ACTIVE_SHORTCUT = <<>> THEN {} ELSE {ACTIVE_SHORTCUT[1][1]})
        \cup (IF escapeRegistered THEN {escape_shortcut} ELSE {})

-----------------------------------------------------------------------------
(* Pixel Sampler *)

HexDigits == <<"0", "1", "2", "3", "4", "5", "6", "7",
               "8", "9", "A", "B", "C", "D", "E", "F">>

\* format!("{:02X}", n) for a u8
Hex02X(n) == <<HexDigits[(n \div 16) + 1], HexDigits[(n % 16) + 1]>>

\* format!("#{:02X}{:02X}{:02X}", r, g, b)
FormatHex(r, g, b) == <<"#">> \o Hex02X(r) \o Hex02X(g) \o Hex02X(b)

Ok(v) == [ok |-> TRUE, val |-> <<v>>, err |-> ""]
Err(e) == [ok |-> FALSE, val |-> <<>>, err |-> e]
NotCalled == [ok |-> FALSE, val |-> <<>>, err |-> "not called"]

\* What the OS answers to one sampling: GetCursorPos (<<>> = error, else the
\* point), GetDC (valid or not) and GetPixel (a COLORREF 0x00BBGGRR or CLR_INVALID).
ScreenPoints == {<<10, 20>>, <<-3, 7>>}
ColorRefs == {255, 1193046}
SamplerEnvs ==
    [cursor : {<<>>} \cup {<<p>> : p \in ScreenPoints},
     dcValid : BOOLEAN,
     pixel : ColorRefs \cup {CLR_INVALID}]

get_cursor_position(env) ==
    IF env.cursor = <<>> THEN Err("Failed to get cursor position")
    ELSE Ok(env.cursor[1])

\* the COLORREF read as 0x00RRGGBB
get_pixel_color_Swapped(env) ==
    IF ~env.dcValid THEN Err("Failed to get device context")
    ELSE IF env.pixel = CLR_INVALID THEN Err("Failed to get pixel color")
    ELSE LET b == env.pixel % 256
             g == (env.pixel \div 256) % 256
             r == (env.pixel \div 65536) % 256
         IN Ok(<<r, g, b>>)

get_pixel_color(env) ==
    IF ~env.dcValid THEN Err("Failed to get device context")
    ELSE IF env.pixel = CLR_INVALID THEN Err("Failed to get pixel color")
    ELSE LET r == env.pixel % 256
             g == (env.pixel \div 256) % 256
             b == (env.pixel \div 65536) % 256
         IN Ok(<<r, g, b>>)

get_color_at_cursor(env) ==
    LET pos == get_cursor_position(env)
        rgb == get_pixel_color(env)
    IN IF ~pos.ok THEN Err(pos.err)
       ELSE IF ~rgb.ok THEN Err(rgb.err)
       ELSE Ok([hex |-> FormatHex(rgb.val[1][1], rgb.val[1][2], rgb.val[1][3]),
                rgb |-> rgb.val[1],
                x |-> pos.val[1][1],
                y |-> pos.val[1][2]])

-----------------------------------------------------------------------------
(* Frames: the state a handler works on *)

Call(op, arg, payload) == [op |-> op, arg |-> arg, payload |-> payload]

\* The frame a handler starts from.
Frame ==
    [active |-> PICK_MODE_ACTIVE,
     changed |-> CURSOR_CHANGED,
     window |-> mainWindow,
     os |-> osCursor,
     failed |-> osRestoreFailed,
     cnt |-> restoresForInstall,
     log |-> <<>>,
     sampled |-> NotCalled,
     install |-> "none",
     restored |-> FALSE,
     event |-> <<>>]

Log(f, c) == [f EXCEPT !.log = Append(@, c)]

\* PICK_MODE_ACTIVE.store(v, SeqCst)
StorePickMode(f, v) == [f EXCEPT !.active = v]

\* app.get_webview_window("main"): the window tauri creates at startup; the app
\* has no code that closes or destroys it.
MainWindowExists == TRUE

\* if let Some(window) = ... { let _ = window.hide(); }
HideMainWindow(f) ==
    IF MainWindowExists
    THEN Log([f EXCEPT !.window = "hidden"], Call("window.hide", "main", <<>>))
    ELSE f

\* if let Some(window) = ... { let _ = window.show(); let _ = window.set_focus(); }
ShowMainWindow(f) ==
    IF MainWindowExists
    THEN Log(Log([f EXCEPT !.window = "visible"], Call("window.show", "main", <<>>)),
             Call("window.set_focus", "main", <<>>))
    ELSE f

\* let _ = app.emit(name, payload)
Emit(f, name, payload) == Log(f, Call("emit", name, payload))

-----------------------------------------------------------------------------
(* Cursor Synthesizer: set_pick_cursor *)

\* Where one run of set_pick_cursor stops succeeding: the icon decode, the DIB
\* section, the pixel pointer, CreateIconIndirect, SetSystemCursor, or nowhere.
CursorOutcomes ==
    {"decode_failed", "dib_failed", "bits_null", "icon_failed", "install_failed",
     "installed"}

OsCall(f, op, result) == Log(f, Call(op, result, <<>>))

\* CURSOR_CHANGED.store(true) placed before the result of SetSystemCursor is known
InstallCursor_StoreFirst(f, outcome) ==
    IF outcome = "icon_failed" THEN OsCall(f, "CreateIconIndirect", "err")
    ELSE IF outcome = "install_failed"
    THEN [OsCall(OsCall(f, "CreateIconIndirect", "ok"), "SetSystemCursor", "err")
            EXCEPT !.changed = TRUE]
    ELSE [OsCall(OsCall(f, "CreateIconIndirect", "ok"), "SetSystemCursor", "ok")
            EXCEPT !.changed = TRUE, !.os = "custom", !.cnt = 0]

\* match CreateIconIndirect(&icon_info) { Ok(icon) => if SetSystemCursor(..).is_ok()
\* { CURSOR_CHANGED.store(true) }, Err(e) => eprintln!(..) }
\* A successful SetSystemCursor replaces the system pointer and takes the handle.
InstallCursor(f, outcome) ==
    IF outcome = "icon_failed" THEN OsCall(f, "CreateIconIndirect", "err")
    ELSE IF outcome = "install_failed"
    THEN OsCall(OsCall(f, "CreateIconIndirect", "ok"), "SetSystemCursor", "err")
    ELSE [OsCall(OsCall(f, "CreateIconIndirect", "ok"), "SetSystemCursor", "ok")
            EXCEPT !.changed = TRUE, !.os = "custom", !.cnt = 0]

\* the channels written in source order
PremultiplyPixel_KeepOrder(r, g, b, a) ==
    <<((r * a) \div 255) % 256, ((g * a) \div 255) % 256,
      ((b * a) \div 255) % 256, a % 256>>

\* lines 130-138: u32 products, truncating division, `as u8`; B, G, R, A order
PremultiplyPixel(r, g, b, a) ==
    <<((b * a) \div 255) % 256, ((g * a) \div 255) % 256,
      ((r * a) \div 255) % 256, a % 256>>

\* for i in 0..(w * h): the destination bytes of pixels i.. of the source bytes
RECURSIVE CopyPixels(_, _)
CopyPixels(pixels, i) ==
    IF i >= Len(pixels) \div 4 THEN <<>>
    ELSE PremultiplyPixel(pixels[i * 4 + 1], pixels[i * 4 + 2],
                          pixels[i * 4 + 3], pixels[i * 4 + 4])
            \o CopyPixels(pixels, i + 1)

\* the bytes stored through bits_ptr into the DIB section
WriteDib(f) == Log(f, Call("dib.write", "", CopyPixels(icon, 0)))

set_pick_cursor(f, outcome) ==
    LET f0 == [f EXCEPT !.install = outcome]
    IN IF outcome = "decode_failed" THEN f0
       ELSE LET f1 == OsCall(f0, "GetDC", "ok")
            IN IF outcome = "dib_failed"
               THEN OsCall(OsCall(f1, "CreateDIBSection", "err"), "ReleaseDC", "hdc_screen")
               ELSE LET f2 == OsCall(f1, "CreateDIBSection", "ok")
                    IN IF outcome = "bits_null"
                       THEN OsCall(OsCall(f2, "DeleteObject", "color_bmp"),
                                   "ReleaseDC", "hdc_screen")
                       ELSE LET f3 == OsCall(WriteDib(f2), "CreateBitmap", "ok")
                                f4 == InstallCursor(f3, outcome)
                            IN OsCall(OsCall(OsCall(f4, "DeleteObject", "mask_bmp"),
                                             "DeleteObject", "color_bmp"),
                                      "ReleaseDC", "hdc_screen")

-----------------------------------------------------------------------------
(* Cursor Restorer *)

\* SystemParametersInfoW(SPI_SETCURSORS, ..): reloads the default cursor scheme
\* when it succeeds; its result is discarded by the callers.
ReloadSystemCursors(f, osOk) ==
    [OsCall(f, "SystemParametersInfoW", IF osOk THEN "ok" ELSE "err")
        EXCEPT !.os = IF osOk THEN "default" ELSE @,
               !.failed = @ \/ ~osOk]

\* the flag reset placed inside a check of the OS call's result
restore_default_cursor_KeepOnFailure(f, osOk) ==
    LET f0 == [f EXCEPT !.restored = TRUE]
    IN IF f0.changed
       THEN [ReloadSystemCursors(f0, osOk)
                EXCEPT !.cnt = @ + 1, !.changed = IF osOk THEN FALSE ELSE @]
       ELSE f0

restore_default_cursor(f, osOk) ==
    LET f0 == [f EXCEPT !.restored = TRUE]
    IN IF f0.changed
       THEN [ReloadSystemCursors(f0, osOk) EXCEPT !.cnt = @ + 1, !.changed = FALSE]
       ELSE f0

\* The crash-recovery variant that setup calls: the same OS call, issued whatever
\* the flag says, and the flag reset afterwards.
restore_default_cursor_force(f, osOk) ==
    [ReloadSystemCursors(f, osOk) EXCEPT !.changed = FALSE]

-----------------------------------------------------------------------------
(* Process state *)

NoEvent ==
    [ev |-> "none", arg |-> "", ret |-> "",
     preActive |-> FALSE, preChanged |-> FALSE, preWindow |-> "visible",
     preOs |-> "default", sampled |-> NotCalled, install |-> "none",
     restored |-> FALSE, event |-> <<>>]

\* The process as it starts: the statics at their initial values, the window
\* visible, nothing registered.  The system pointer is the default one unless an
\* earlier instance was killed while it had replaced it (lib.rs:209).
Boot ==
    /\ phase = "starting"
    /\ PICK_MODE_ACTIVE = FALSE
    /\ CURSOR_CHANGED = FALSE
    /\ ACTIVE_SHORTCUT = <<>>
    /\ escapeRegistered = FALSE
    /\ mainWindow = "visible"
    /\ osCursor \in {"default", "custom"}
    /\ osRestoreFailed = FALSE
    /\ restoresForInstall = 0
    /\ calls = <<>>
    /\ last = NoEvent
    /\ restorer = [t \in Threads |-> "idle"]

\* a stand-in for the decoded icon: an opaque and a half-transparent pixel
SampleIcon == <<255, 0, 0, 255, 0, 128, 255, 128>>

\* ... with the icon of this build, no invocation waiting and no history file yet
Init ==
    /\ Boot
    /\ icon = SampleIcon
    /\ inbox = <<>>
    /\ historyFile = <<>>

\* A handler returns: its frame becomes the process state.
Return(f, ev, arg, ret) ==
    /\ PICK_MODE_ACTIVE' = f.active
    /\ CURSOR_CHANGED' = f.changed
    /\ mainWindow' = f.window
    /\ osCursor' = f.os
    /\ osRestoreFailed' = f.failed
    /\ restoresForInstall' = f.cnt
    /\ calls' = f.log
    /\ last' = [ev |-> ev, arg |-> arg, ret |-> ret,
                preActive |-> PICK_MODE_ACTIVE, preChanged |-> CURSOR_CHANGED,
                preWindow |-> mainWindow, preOs |-> osCursor,
                sampled |-> f.sampled, install |-> f.install,
                restored |-> f.restored, event |-> f.event]

-----------------------------------------------------------------------------
(* setup (lib.rs:208-303) *)

\* the startup restore done with the flag-guarded restorer
setup_GuardedRestore(free, escOk, trayOk, osOk) ==
    /\ phase = "starting"
    /\ Return(restore_default_cursor(Frame, osOk), "setup", "", IF trayOk THEN "Ok" ELSE "Err")
    /\ ACTIVE_SHORTCUT' = RegisterFirst(1, free)
    /\ escapeRegistered' = escOk
    /\ phase' = IF trayOk THEN "running" ELSE "aborted"
    /\ UNCHANGED <<restorer, icon, outside>>

\* free: the candidates whose registration succeeds; escOk: whether Escape
\* registers; trayOk: whether the tray menu and icon build (a failure makes setup
\* return Err and run() panic on expect).
setup(free, escOk, trayOk, osOk) ==
    /\ phase = "starting"
    /\ Return(restore_default_cursor_force(Frame, osOk), "setup", "",
              IF trayOk THEN "Ok" ELSE "Err")
    /\ ACTIVE_SHORTCUT' = RegisterFirst(1, free)
    /\ escapeRegistered' = escOk
    /\ phase' = IF trayOk THEN "running" ELSE "aborted"
    /\ UNCHANGED <<restorer, icon, outside>>

-----------------------------------------------------------------------------
(* Commands (lib.rs:56-148) *)

Handled(f, ev, arg, ret) ==
    /\ Return(f, ev, arg, ret)
    /\ UNCHANGED <<phase, ACTIVE_SHORTCUT, escapeRegistered, restorer, icon, outside>>

cmd_get_color_at_cursor(env) ==
    /\ phase = "running"
    /\ LET color == get_color_at_cursor(env)
       IN Handled([Frame EXCEPT !.sampled = color], "get_color_at_cursor", "",
                  IF color.ok THEN "Ok" ELSE color.err)

cmd_is_pick_mode_active ==
    /\ phase = "running"
    /\ Handled(Frame, "is_pick_mode_active", "",
               IF PICK_MODE_ACTIVE THEN "true" ELSE "false")

\* a cursor install failure propagated to the caller
start_pick_mode_Propagate(f, outcome) ==
    LET f1 == StorePickMode(f, TRUE)
        f2 == HideMainWindow(f1)
        f3 == set_pick_cursor(f2, outcome)
    IN IF outcome = "installed" THEN Emit(f3, "pick-mode-started", <<>>) ELSE f3

start_pick_mode(f, outcome) ==
    LET f1 == StorePickMode(f, TRUE)
        f2 == HideMainWindow(f1)
        f3 == set_pick_cursor(f2, outcome)
    IN Emit(f3, "pick-mode-started", <<>>)

cmd_start_pick_mode(outcome) ==
    /\ phase = "running"
    /\ Handled(start_pick_mode(Frame, outcome), "start_pick_mode", "", "Ok")

\* the cursor restore left out of the stop path
stop_pick_mode_NoRestore(f, osOk) ==
    LET f1 == StorePickMode(f, FALSE)
        f3 == ShowMainWindow(f1)
    IN Emit(f3, "pick-mode-stopped", <<>>)

stop_pick_mode(f, osOk) ==
    LET f1 == StorePickMode(f, FALSE)
        f2 == restore_default_cursor(f1, osOk)
        f3 == ShowMainWindow(f2)
    IN Emit(f3, "pick-mode-stopped", <<>>)

cmd_stop_pick_mode(osOk) ==
    /\ phase = "running"
    /\ Handled(stop_pick_mode(Frame, osOk), "stop_pick_mode", "", "Ok")

\* the flag left set when the colour has been committed
pick_color_now_KeepActive(f, env, osOk) ==
    LET color == get_color_at_cursor(env)
        f0 == [f EXCEPT !.sampled = color]
    IN IF ~color.ok THEN f0
       ELSE LET f2 == restore_default_cursor(f0, osOk)
                f3 == ShowMainWindow(f2)
            IN Emit(f3, "color-picked", color.val)

\* let color = get_color_at_cursor()?; ... Ok(color)
pick_color_now(f, env, osOk) ==
    LET color == get_color_at_cursor(env)
        f0 == [f EXCEPT !.sampled = color]
    IN IF ~color.ok THEN f0
       ELSE LET f1 == StorePickMode(f0, FALSE)
                f2 == restore_default_cursor(f1, osOk)
                f3 == ShowMainWindow(f2)
            IN Emit(f3, "color-picked", color.val)

cmd_pick_color_now(env, osOk) ==
    /\ phase = "running"
    /\ LET f == pick_color_now(Frame, env, osOk)
       IN Handled(f, "pick_color_now", "", IF f.sampled.ok THEN "Ok" ELSE f.sampled.err)

-----------------------------------------------------------------------------
(* Global shortcut handler (lib.rs:157-205) *)

\* the flag cleared before the sample is taken
HotkeyPick_StoreFirst(f, env, osOk) ==
    LET color == get_color_at_cursor(env)
        f0 == StorePickMode([f EXCEPT !.sampled = color], FALSE)
    IN IF ~color.ok THEN f0
       ELSE LET f2 == restore_default_cursor(f0, osOk)
                f3 == Emit(f2, "color-picked", color.val)
            IN ShowMainWindow(f3)

\* lib.rs:172-180
HotkeyPick(f, env, osOk) ==
    LET color == get_color_at_cursor(env)
        f0 == [f EXCEPT !.sampled = color]
    IN IF ~color.ok THEN f0
       ELSE LET f1 == StorePickMode(f0, FALSE)
                f2 == restore_default_cursor(f1, osOk)
                f3 == Emit(f2, "color-picked", color.val)
            IN ShowMainWindow(f3)

\* lib.rs:183-188
HotkeyStart(f, outcome) ==
    LET f1 == StorePickMode(f, TRUE)
        f2 == Emit(f1, "pick-mode-started", <<>>)
        f3 == HideMainWindow(f2)
    IN set_pick_cursor(f3, outcome)

\* Escape leaving pick mode without the Cursor Restorer
EscapeCancel_NoRestore(f, osOk) ==
    LET f1 == StorePickMode(f, FALSE)
        f3 == Emit(f1, "pick-mode-stopped", <<>>)
    IN ShowMainWindow(f3)

\* lib.rs:197-203
EscapeCancel(f, osOk) ==
    LET f1 == StorePickMode(f, FALSE)
        f2 == restore_default_cursor(f1, osOk)
        f3 == Emit(f2, "pick-mode-stopped", <<>>)
    IN ShowMainWindow(f3)

\* The frames the handler can return with: one per answer of the OS to the calls
\* made on the path taken.  The pick branch (lib.rs:169-190) runs first, the
\* Escape check (lib.rs:193-204) reads PICK_MODE_ACTIVE after it.
AfterPickBranch(f, shortcut) ==
    LET is_pick == /\ ACTIVE_SHORTCUT # <<>>
                   /\ shortcut = ACTIVE_SHORTCUT[1][1]
    IN IF is_pick
       THEN IF f.active
            THEN {HotkeyPick(f, env, osOk) : env \in SamplerEnvs, osOk \in BOOLEAN}
            ELSE {HotkeyStart(f, outcome) : outcome \in CursorOutcomes}
       ELSE {f}

\* Escape cancelling whatever the mode
AfterEscapeBranch_Unguarded(f, shortcut) ==
    IF shortcut = escape_shortcut
    THEN {EscapeCancel(f, osOk) : osOk \in BOOLEAN}
    ELSE {f}

AfterEscapeBranch(f, shortcut) ==
    IF shortcut = escape_shortcut /\ f.active
    THEN {EscapeCancel(f, osOk) : osOk \in BOOLEAN}
    ELSE {f}

on_shortcut(f, shortcut, state) ==
    LET f0 == [f EXCEPT !.event = <<[shortcut |-> shortcut, state |-> state]>>]
    IN IF state # "Pressed" THEN {f0}
       ELSE UNION {AfterEscapeBranch(f1, shortcut) : f1 \in AfterPickBranch(f0, shortcut)}

shortcut_handler(shortcut, state) ==
    /\ phase = "running"
    /\ shortcut \in RegisteredShortcuts
    /\ \E f \in on_shortcut(Frame, shortcut, state) :
            Handled(f, "shortcut_handler", state, "")

-----------------------------------------------------------------------------
(* System tray (lib.rs:259-300) *)

TrayMenuIds == {"quit", "pick", "show"}

\* app.exit(0) reached without the restore before it
TrayQuit_NoRestore(f, osOk) == OsCall(f, "app.exit", "0")

\* lib.rs:264-268
TrayQuit(f, osOk) == OsCall(restore_default_cursor(f, osOk), "app.exit", "0")

\* lib.rs:269-277
TrayPick(f, outcome) ==
    LET f1 == StorePickMode(f, TRUE)
        f2 == Emit(f1, "pick-mode-started", <<>>)
        f3 == HideMainWindow(f2)
    IN set_pick_cursor(f3, outcome)

MenuEvent(f, id) ==
    CASE id = "quit" -> {TrayQuit(f, osOk) : osOk \in BOOLEAN}
      [] id = "pick" -> {TrayPick(f, outcome) : outcome \in CursorOutcomes}
      [] id = "show" -> {ShowMainWindow(f)}
      [] OTHER -> {f}

on_menu_event(id) ==
    /\ phase = "running"
    /\ \E f \in MenuEvent(Frame, id) : Return(f, "on_menu_event", id, "")
    /\ phase' = IF id = "quit" THEN "exited" ELSE phase
    /\ UNCHANGED <<ACTIVE_SHORTCUT, escapeRegistered, restorer, icon, outside>>

TrayClicks == {"LeftUp", "LeftDown", "RightUp"}

on_tray_icon_event(click) ==
    /\ phase = "running"
    /\ Handled(IF click = "LeftUp" THEN ShowMainWindow(Frame) ELSE Frame,
               "on_tray_icon_event", click, "")

-----------------------------------------------------------------------------
(* The serialized dispatcher *)

Next ==
    \/ \E free \in SUBSET (1..Len(pick_shortcut_candidates)),
          escOk \in BOOLEAN, trayOk \in BOOLEAN, osOk \in BOOLEAN :
            setup(free, escOk, trayOk, osOk)
    \/ \E env \in SamplerEnvs : cmd_get_color_at_cursor(env)
    \/ cmd_is_pick_mode_active
    \/ \E outcome \in CursorOutcomes : cmd_start_pick_mode(outcome)
    \/ \E osOk \in BOOLEAN : cmd_stop_pick_mode(osOk)
    \/ \E env \in SamplerEnvs, osOk \in BOOLEAN : cmd_pick_color_now(env, osOk)
    \/ \E shortcut \in RegisteredShortcuts, state \in ShortcutStates :
            shortcut_handler(shortcut, state)
    \/ \E id \in TrayMenuIds : on_menu_event(id)
    \/ \E click \in TrayClicks : on_tray_icon_event(click)

Spec == Init /\ [][Next]_vars

-----------------------------------------------------------------------------
(* restore_default_cursor run from several threads at once: each thread goes   *)
(* through the function's three steps, the load of the flag (color_picker.rs   *)
(* 174), the OS call (176-181) and the store (183), interleaved with the       *)
(* others' steps.                                                              *)

restore_load(t) ==
    /\ phase = "running"
    /\ restorer[t] = "idle"
    /\ CURSOR_CHANGED
    /\ restorer' = [restorer EXCEPT ![t] = "in_branch"]
    /\ UNCHANGED <<phase, PICK_MODE_ACTIVE, CURSOR_CHANGED, ACTIVE_SHORTCUT,
                   escapeRegistered, mainWindow, osCursor, osRestoreFailed,
                   restoresForInstall, calls, last, icon, outside>>

restore_os_call(t, osOk) ==
    /\ restorer[t] = "in_branch"
    /\ LET f == ReloadSystemCursors(Frame, osOk)
       IN /\ osCursor' = f.os
          /\ osRestoreFailed' = f.failed
    /\ restoresForInstall' = restoresForInstall + 1
    /\ restorer' = [restorer EXCEPT ![t] = "called"]
    /\ UNCHANGED <<phase, PICK_MODE_ACTIVE, CURSOR_CHANGED, ACTIVE_SHORTCUT,
                   escapeRegistered, mainWindow, calls, last, icon, outside>>

restore_store(t) ==
    /\ restorer[t] = "called"
    /\ CURSOR_CHANGED' = FALSE
    /\ restorer' = [restorer EXCEPT ![t] = "idle"]
    /\ UNCHANGED <<phase, PICK_MODE_ACTIVE, ACTIVE_SHORTCUT, escapeRegistered,
                   mainWindow, osCursor, osRestoreFailed, restoresForInstall,
                   calls, last, icon, outside>>

NextConc ==
    \/ \E free \in SUBSET (1..Len(pick_shortcut_candidates)),
          escOk \in BOOLEAN, trayOk \in BOOLEAN, osOk \in BOOLEAN :
            setup(free, escOk, trayOk, osOk)
    \/ \E outcome \in CursorOutcomes : cmd_start_pick_mode(outcome)
    \/ \E t \in Threads : restore_load(t)
    \/ \E t \in Threads, osOk \in BOOLEAN : restore_os_call(t, osOk)
    \/ \E t \in Threads : restore_store(t)

SpecConc == Init /\ [][NextConc]_vars

-----------------------------------------------------------------------------
(* Region Capturer: capture_zoom_preview (color_picker.rs:187-260) *)

Min(a, b) == IF a <= b THEN a ELSE b
Max(a, b) == IF a >= b THEN a ELSE b

\* an xcap Monitor: origin in virtual-screen coordinates, extent in pixels
Display(x, y, w, h) == [x |-> x, y |-> y, width |-> w, height |-> h]

\* the far edges taken as inside the monitor
Contains_Inclusive(m, cursor_x, cursor_y) ==
    /\ cursor_x >= m.x /\ cursor_x <= m.x + m.width
    /\ cursor_y >= m.y /\ cursor_y <= m.y + m.height

\* the closure of monitors.into_iter().find(..)
Contains(m, cursor_x, cursor_y) ==
    /\ cursor_x >= m.x /\ cursor_x < m.x + m.width
    /\ cursor_y >= m.y /\ cursor_y < m.y + m.height

\* find: the first monitor, in enumeration order, that contains the cursor
RECURSIVE FindMonitor(_, _, _, _)
FindMonitor(monitors, i, cursor_x, cursor_y) ==
    IF i > Len(monitors) THEN <<>>
    ELSE IF Contains(monitors[i], cursor_x, cursor_y) THEN <<monitors[i]>>
    ELSE FindMonitor(monitors, i + 1, cursor_x, cursor_y)

\* size.min(n as u32) for an i32 n and a u32 size below 2^31: a negative n casts
\* to 2^32 + n, which is above every such size.
MinCastU32(size, n) == IF n < 0 THEN size ELSE Min(size, n)

\* the nominal size reported in place of the clamped extent
CaptureExtent_Nominal(size, monitor_extent, capture_origin) == size

\* let capture_w = size.min((monitor_w - capture_x) as u32)
\* the extent of half a square
CaptureExtent_HalfSize(size, monitor_extent, capture_origin) ==
    MinCastU32(size \div 2, monitor_extent - capture_origin)

CaptureExtent(size, monitor_extent, capture_origin) ==
    MinCastU32(size, monitor_extent - capture_origin)

\* the origin left unclamped
CaptureOrigin_Unclamped(rel, size) == rel - (size \div 2)

\* the whole size, not half of it, taken off the pointer position
CaptureOrigin_FullSize(rel, size) == Max(rel - size, 0)

\* let half_size = (size / 2) as i32; let capture_x = (rel_x - half_size).max(0)
CaptureOrigin(rel, size) == Max(rel - (size \div 2), 0)

\* lines 209-224: the capture rectangle in the monitor's local coordinates
CaptureRect(monitor, cursor_x, cursor_y, size) ==
    LET rel_x == cursor_x - monitor.x
        rel_y == cursor_y - monitor.y
        capture_x == CaptureOrigin(rel_x, size)
        capture_y == CaptureOrigin(rel_y, size)
    IN [x |-> capture_x,
        y |-> capture_y,
        width |-> CaptureExtent(size, monitor.width, capture_x),
        height |-> CaptureExtent(size, monitor.height, capture_y)]

\* what the command hands back to its caller, noted after the calls it made
Reply(f, result) ==
    Log(f, Call("reply", IF result.ok THEN "Ok" ELSE result.err, result.val))

\* z: the command's argument and what the OS answers while it runs: the sampler
\* answers (env), the monitors enumerated, whether the enumeration, the screen
\* capture and the PNG encoding succeed.
capture_zoom_preview(f, z) ==
    LET f0 == [f EXCEPT !.event = <<z>>]
        pos == get_cursor_position(z.env)
        rgb == get_pixel_color(z.env)
    IN IF ~pos.ok THEN Reply(f0, Err(pos.err))
       ELSE IF ~rgb.ok THEN Reply(f0, Err(rgb.err))
       ELSE
         LET cursor_x == pos.val[1][1]
             cursor_y == pos.val[1][2]
             f1 == OsCall(f0, "Monitor::all", IF z.monitorsOk THEN "ok" ELSE "err")
             found == FindMonitor(z.monitors, 1, cursor_x, cursor_y)
         IN IF ~z.monitorsOk THEN Reply(f1, Err("Failed to get monitors"))
            ELSE IF found = <<>>
            THEN Reply(f1, Err("Could not find monitor containing cursor"))
            ELSE
              LET monitor == found[1]
                  rect == CaptureRect(monitor, cursor_x, cursor_y, z.size)
                  f2 == OsCall(f1, "capture_image", IF z.captureOk THEN "ok" ELSE "err")
                  f3 == Log(f2, Call("crop_imm", "", <<[monitor |-> monitor, rect |-> rect]>>))
                  f4 == OsCall(f3, "write_to", IF z.encodeOk THEN "ok" ELSE "err")
                  r == rgb.val[1]
              IN IF ~z.captureOk THEN Reply(f2, Err("Failed to capture screen"))
                 ELSE IF ~z.encodeOk THEN Reply(f4, Err("Failed to encode image"))
                 ELSE Reply(f4,
                        Ok([image_data |-> [monitor |-> monitor, rect |-> rect],
                            center_color |->
                                [hex |-> FormatHex(r[1], r[2], r[3]),
                                 rgb |-> r, x |-> cursor_x, y |-> cursor_y],
                            width |-> rect.width,
                            height |-> rect.height]))

\* an invocation, with what the OS will answer while it is handled
Request(cmd, args) == [cmd |-> cmd, args |-> args]

\* The dispatcher (lib.rs:304-314) hands the oldest waiting invocation to its
\* command, whose frame becomes the process state.
Invoked(cmd) ==
    /\ phase = "running"
    /\ inbox # <<>>
    /\ Head(inbox).cmd = cmd

Served(f, ret) ==
    /\ Return(f, Head(inbox).cmd, "", ret)
    /\ inbox' = Tail(inbox)
    /\ UNCHANGED <<phase, ACTIVE_SHORTCUT, escapeRegistered, restorer, icon>>

cmd_capture_zoom_preview ==
    /\ Invoked("capture_zoom_preview")
    /\ LET f == capture_zoom_preview(Frame, Head(inbox).args)
       IN Served(f, f.log[Len(f.log)].arg)
    /\ UNCHANGED historyFile

\* lib.rs:56-59, for the invocation waiting in the inbox
invoke_get_color_at_cursor ==
    /\ Invoked("get_color_at_cursor")
    /\ LET color == get_color_at_cursor(Head(inbox).args)
       IN Served([Frame EXCEPT !.sampled = color, !.event = <<Head(inbox).args>>],
                 IF color.ok THEN "Ok" ELSE color.err)
    /\ UNCHANGED historyFile

\* Inputs of the preview commands.

\* largest width and height of the small displays
MaxExtent == 3

\* largest requested size on the small displays
MaxSize == 7

\* one thing at most goes wrong during a call
Faults == {"none", "cursor", "dc", "pixel", "monitors", "capture", "encode"}

ZoomInput(monitors, p, colorref, size, fault) ==
    [env |-> [cursor |-> IF fault = "cursor" THEN <<>> ELSE <<p>>,
              dcValid |-> fault # "dc",
              pixel |-> IF fault = "pixel" THEN CLR_INVALID ELSE colorref],
     monitors |-> monitors,
     monitorsOk |-> fault # "monitors",
     size |-> size,
     captureOk |-> fault # "capture",
     encodeOk |-> fault # "encode"]

SmallDisplays ==
    {Display(o[1], o[2], w, h) :
        o \in {<<0, 0>>, <<-2, 1>>}, w \in 1..MaxExtent, h \in 1..MaxExtent}

\* no monitor, one small monitor, two monitors side by side (the second left of
\* the primary), two mirrored monitors of different extents
SmallLayouts ==
    {<<>>} \cup {<<d>> : d \in SmallDisplays}
        \cup {<<Display(0, 0, 2, 2), Display(-MaxExtent, 0, MaxExtent, 1)>>,
              <<Display(0, 0, 1, 2), Display(0, 0, MaxExtent, MaxExtent)>>}

SmallPoints == {<<x, y>> : x \in (-MaxExtent - 1)..(MaxExtent + 1), y \in -1..(MaxExtent + 2)}

FullHD == Display(0, 0, 1920, 1080)

FullHDPoints ==
    {<<0, 0>>, <<1919, 1079>>, <<1919, 0>>, <<0, 1079>>, <<960, 540>>,
     <<249, 250>>, <<1669, 829>>, <<1920, 1079>>, <<1919, 1080>>, <<-1, 0>>}

FullHDSizes == {0, 1, 2, 499, 500, 501, 1080, 1920, 4000}

\* every byte pattern of a channel that the two hex digits treat differently
ByteSamples == {0, 1, 9, 10, 15, 16, 127, 128, 254, 255}

\* COLORREF 0x00BBGGRR
ColorRef(r, g, b) == r + 256 * g + 65536 * b

SweepColorRefs == {ColorRef(r, g, b) : r \in ByteSamples, g \in ByteSamples, b \in ByteSamples}

\* no monitor, one monitor, two monitors
FaultyLayouts ==
    {<<>>, <<Display(-2, 1, 2, 1)>>,
     <<Display(0, 0, 2, 2), Display(-MaxExtent, 0, MaxExtent, 1)>>}

\* on the given layouts every pointer and size without a fault; every fault at
\* one size; the 1920x1080 monitor; every colour under one pointer
ZoomInputs(layouts) ==
    {ZoomInput(l, p, 1193046, size, "none") :
        l \in layouts, p \in SmallPoints, size \in 0..MaxSize}
    \cup {ZoomInput(l, p, 1193046, 2, fault) :
            l \in FaultyLayouts, p \in SmallPoints, fault \in Faults}
    \cup {ZoomInput(<<FullHD>>, p, 1193046, size, "none") :
            p \in FullHDPoints, size \in FullHDSizes}
    \cup {ZoomInput(<<FullHD>>, <<960, 540>>, c, 500, "none") : c \in SweepColorRefs}

SweepEnvs ==
    [cursor : {<<>>, <<<<960, 540>>>>},
     dcValid : BOOLEAN,
     pixel : SweepColorRefs \cup {CLR_INVALID}]

\* A process that is sent one preview invocation, the hover sampling or the zoom
\* preview, with any of the inputs above.
InitPreview ==
    /\ Boot
    /\ osCursor = "default"
    /\ icon = SampleIcon
    /\ inbox \in {<<Request("capture_zoom_preview", z)>> : z \in ZoomInputs(SmallLayouts)}
                \cup {<<Request("get_color_at_cursor", env)>> : env \in SweepEnvs}
    /\ historyFile = <<>>

NextPreview ==
    \/ setup({1}, TRUE, TRUE, TRUE)
    \/ invoke_get_color_at_cursor
    \/ cmd_capture_zoom_preview

SpecPreview == InitPreview /\ [][NextPreview]_vars

-----------------------------------------------------------------------------
(* The cursor image: pick mode started with any icon *)

ChannelSamples == {0, 1, 127, 255}

\* one-pixel icons of every sampled colour and alpha, and the two-pixel icon
IconImages ==
    {<<r, g, b, a>> : r \in ChannelSamples, g \in ChannelSamples,
                      b \in ChannelSamples, a \in ByteSamples}
        \cup {SampleIcon}

InitCursorImage ==
    /\ Boot
    /\ icon \in IconImages
    /\ inbox = <<>>
    /\ historyFile = <<>>

NextCursorImage ==
    \/ setup({1}, TRUE, TRUE, TRUE)
    \/ \E outcome \in CursorOutcomes : cmd_start_pick_mode(outcome)
    \/ cmd_stop_pick_mode(TRUE)

SpecCursorImage == InitCursorImage /\ [][NextCursorImage]_vars

-----------------------------------------------------------------------------
(* History Store (storage.rs): the JSON text of a Vec<ColorEntry> *)

\* ColorEntry (lib.rs:39-46); a String is its sequence of characters, an
\* Option<String> is <<>> for None and <<s>> for Some(s)
ColorEntry(id, hex, rgb, timestamp, label) ==
    [id |-> id, hex |-> hex, rgb |-> rgb, timestamp |-> timestamp, label |-> label]

DecDigits == <<"0", "1", "2", "3", "4", "5", "6", "7", "8", "9">>

\* the decimal digits of an unsigned integer
RECURSIVE Decimal(_)
Decimal(n) ==
    IF n < 10 THEN <<DecDigits[n + 1]>>
    ELSE Decimal(n \div 10) \o <<DecDigits[(n % 10) + 1]>>

\* a string written without escapes
EscapeChar_Raw(c) == <<c>>

\* serde_json's escapes of a character inside a string literal
EscapeChar(c) ==
    CASE c = "\"" -> <<"\\", "\"">>
      [] c = "\\" -> <<"\\", "\\">>
      [] c = "\n" -> <<"\\", "n">>
      [] c = "\t" -> <<"\\", "t">>
      [] c = "\r" -> <<"\\", "r">>
      [] OTHER -> <<c>>

RECURSIVE Escape(_)
Escape(s) == IF s = <<>> THEN <<>> ELSE EscapeChar(Head(s)) \o Escape(Tail(s))

Quote(s) == <<"\"">> \o Escape(s) \o <<"\"">>

\* PrettyFormatter: a new line and two spaces per level
RECURSIVE Indent(_)
Indent(level) == IF level = 0 THEN <<>> ELSE <<" ", " ">> \o Indent(level - 1)

NewLine(level) == <<"\n">> \o Indent(level)

\* "name": at the start of a field of an entry
Key(name) == NewLine(2) \o Quote(name) \o <<":", " ">>

WriteRgb(rgb) ==
    <<"[">> \o NewLine(3) \o Decimal(rgb[1]) \o <<",">>
            \o NewLine(3) \o Decimal(rgb[2]) \o <<",">>
            \o NewLine(3) \o Decimal(rgb[3])
            \o NewLine(2) \o <<"]">>

WriteLabel(label) ==
    IF label = <<>> THEN <<"n", "u", "l", "l">> ELSE Quote(label[1])

\* #[derive(Serialize)]: the fields in declaration order
WriteEntry(e) ==
    NewLine(1) \o <<"{">>
        \o Key(<<"i", "d">>) \o Quote(e.id) \o <<",">>
        \o Key(<<"h", "e", "x">>) \o Quote(e.hex) \o <<",">>
        \o Key(<<"r", "g", "b">>) \o WriteRgb(e.rgb) \o <<",">>
        \o Key(<<"t", "i", "m", "e", "s", "t", "a", "m", "p">>)
            \o Decimal(e.timestamp) \o <<",">>
        \o Key(<<"l", "a", "b", "e", "l">>) \o WriteLabel(e.label)
        \o NewLine(1) \o <<"}">>

RECURSIVE WriteEntries(_)
WriteEntries(colors) ==
    IF Len(colors) = 1 THEN WriteEntry(colors[1])
    ELSE WriteEntry(colors[1]) \o <<",">> \o WriteEntries(Tail(colors))

\* serde_json::to_string_pretty(colors)
ToStringPretty(colors) ==
    IF colors = <<>> THEN <<"[", "]">>
    ELSE <<"[">> \o WriteEntries(colors) \o NewLine(0) \o <<"]">>

\* serde_json::from_str::<Vec<ColorEntry>>: a parser over positions of the text.
\* Each step hands its result to the operator that continues from it.

\* largest timestamp the model reads (a u64 in the source)
TimestampMax == 2147483647

Parsed(v, i) == [ok |-> TRUE, val |-> <<v>>, pos |-> i]
Failed == [ok |-> FALSE, val |-> <<>>, pos |-> 0]

\* the character at position i, "" past the end
At(t, i) == IF i <= Len(t) THEN t[i] ELSE ""

RECURSIVE SkipWs(_, _)
SkipWs(t, i) == IF At(t, i) \in {" ", "\n", "\t", "\r"} THEN SkipWs(t, i + 1) ELSE i

ExpectAt(t, j, c) == IF At(t, j) = c THEN j + 1 ELSE 0

\* the position after character c, which follows optional whitespace; 0 if absent
Expect(t, i, c) == ExpectAt(t, SkipWs(t, i), c)

Unescape(e) == CASE e = "n" -> "\n" [] e = "t" -> "\t" [] e = "r" -> "\r" [] OTHER -> e

\* the characters of a string literal from position i, after its opening quote
RECURSIVE ParseChars(_, _, _)
ParseChars(t, i, acc) ==
    LET c == At(t, i)
        e == At(t, i + 1)
    IN IF c = "" \/ c \in {"\n", "\t", "\r"} THEN Failed
       ELSE IF c = "\"" THEN Parsed(acc, i + 1)
       ELSE IF c = "\\" /\ e \notin {"\"", "\\", "/", "n", "t", "r"} THEN Failed
       ELSE ParseChars(t, IF c = "\\" THEN i + 2 ELSE i + 1,
                       Append(acc, IF c = "\\" THEN Unescape(e) ELSE c))

StringAt(t, j) == IF At(t, j) = "\"" THEN ParseChars(t, j + 1, <<>>) ELSE Failed

ParseString(t, i) == StringAt(t, SkipWs(t, i))

IsDigit(c) == \E v \in 1..10 : DecDigits[v] = c

DigitValue(c) == (CHOOSE v \in 1..10 : DecDigits[v] = c) - 1

RECURSIVE ParseDigits(_, _, _, _)
ParseDigits(t, i, acc, max) ==
    IF ~IsDigit(At(t, i)) THEN Parsed(acc, i)
    ELSE IF acc > (max - DigitValue(t[i])) \div 10 THEN Failed
    ELSE ParseDigits(t, i + 1, acc * 10 + DigitValue(t[i]), max)

\* an integer has no fraction and no exponent
NoFraction(t, n) == IF n.ok /\ At(t, n.pos) \in {".", "e", "E"} THEN Failed ELSE n

UnsignedAt(t, j, max) ==
    IF ~IsDigit(At(t, j)) THEN Failed
    ELSE IF t[j] = "0"
    THEN IF IsDigit(At(t, j + 1)) THEN Failed ELSE NoFraction(t, Parsed(0, j + 1))
    ELSE NoFraction(t, ParseDigits(t, j, 0, max))

\* an unsigned integer of at most max: no sign, no leading zero
ParseUnsigned(t, i, max) == UnsignedAt(t, SkipWs(t, i), max)

\* the elements of an array of u8 from position i, after its opening bracket
RECURSIVE ParseBytes(_, _, _)

BytesNext(t, k, bytes) ==
    IF At(t, k) = "," THEN ParseBytes(t, k + 1, bytes)
    ELSE IF At(t, k) = "]" THEN Parsed(bytes, k + 1)
    ELSE Failed

BytesAfter(t, n, acc) ==
    IF ~n.ok THEN Failed ELSE BytesNext(t, SkipWs(t, n.pos), Append(acc, n.val[1]))

ParseBytes(t, i, acc) == BytesAfter(t, ParseUnsigned(t, i, 255), acc)

ThreeBytes(bytes) == IF bytes.ok /\ Len(bytes.val[1]) = 3 THEN bytes ELSE Failed

RgbAt(t, j) == IF j = 0 THEN Failed ELSE ThreeBytes(ParseBytes(t, j, <<>>))

\* [u8; 3]
ParseRgb(t, i) == RgbAt(t, Expect(t, i, "["))

SomeString(s) == IF s.ok THEN Parsed(<<s.val[1]>>, s.pos) ELSE Failed

LabelAt(t, j) ==
    IF <<At(t, j), At(t, j + 1), At(t, j + 2), At(t, j + 3)>> = <<"n", "u", "l", "l">>
    THEN Parsed(<<>>, j + 4)
    ELSE SomeString(StringAt(t, j))

\* Option<String>: null or a string
ParseLabel(t, i) == LabelAt(t, SkipWs(t, i))

FieldNames ==
    [id |-> <<"i", "d">>, hex |-> <<"h", "e", "x">>, rgb |-> <<"r", "g", "b">>,
     timestamp |-> <<"t", "i", "m", "e", "s", "t", "a", "m", "p">>,
     label |-> <<"l", "a", "b", "e", "l">>]

NoFields == [f \in DOMAIN FieldNames |-> <<>>]

\* the field a key names, if any
FieldNamed(key) == {f \in DOMAIN FieldNames : FieldNames[f] = key}

ParseField(t, i, f) ==
    CASE f \in {"id", "hex"} -> ParseString(t, i)
      [] f = "rgb" -> ParseRgb(t, i)
      [] f = "timestamp" -> ParseUnsigned(t, i, TimestampMax)
      [] f = "label" -> ParseLabel(t, i)

\* #[derive(Deserialize)]: the fields of an object from position i, after its
\* opening brace, in any order, each at most once; label may be missing
RECURSIVE ParseFields(_, _, _)

FieldsEnd(t, k, got) ==
    IF At(t, k) = "," THEN ParseFields(t, k + 1, got)
    ELSE IF At(t, k) # "}" THEN Failed
    ELSE IF \E g \in {"id", "hex", "rgb", "timestamp"} : got[g] = <<>> THEN Failed
    ELSE Parsed(ColorEntry(got.id[1], got.hex[1], got.rgb[1], got.timestamp[1],
                           IF got.label = <<>> THEN <<>> ELSE got.label[1]),
                k + 1)

FieldValue(t, f, v, acc) ==
    IF acc[f] # <<>> \/ ~v.ok THEN Failed
    ELSE FieldsEnd(t, SkipWs(t, v.pos), [acc EXCEPT ![f] = <<v.val[1]>>])

FieldAfterColon(t, colon, fs, acc) ==
    IF colon = 0 \/ fs = {} THEN Failed
    ELSE FieldValue(t, CHOOSE f \in fs : TRUE,
                    ParseField(t, colon, CHOOSE f \in fs : TRUE), acc)

FieldAfterKey(t, key, acc) ==
    IF ~key.ok THEN Failed
    ELSE FieldAfterColon(t, Expect(t, key.pos, ":"), FieldNamed(key.val[1]), acc)

ParseFields(t, i, acc) == FieldAfterKey(t, ParseString(t, i), acc)

\* the entries of the outer array from position i, the first or after a comma
RECURSIVE ParseEntries(_, _, _)

EntriesNext(t, k, colors) ==
    IF At(t, k) = "," THEN ParseEntries(t, k + 1, colors)
    ELSE IF At(t, k) = "]" THEN Parsed(colors, k + 1)
    ELSE Failed

EntriesAfter(t, e, acc) ==
    IF ~e.ok THEN Failed ELSE EntriesNext(t, SkipWs(t, e.pos), Append(acc, e.val[1]))

EntryAt(t, j, acc) ==
    IF j = 0 THEN Failed ELSE EntriesAfter(t, ParseFields(t, j, NoFields), acc)

ParseEntries(t, i, acc) == EntryAt(t, Expect(t, i, "{"), acc)

FirstEntryAt(t, j) ==
    IF At(t, j) = "]" THEN Parsed(<<>>, j + 1) ELSE ParseEntries(t, j, <<>>)

ArrayAt(t, j) == IF j = 0 THEN Failed ELSE FirstEntryAt(t, SkipWs(t, j))

\* nothing but whitespace after the array
Whole(t, colors) ==
    IF colors.ok /\ SkipWs(t, colors.pos) > Len(t) THEN colors ELSE Failed

\* serde_json::from_str(&json)
FromStr(t) == Whole(t, ArrayAt(t, Expect(t, 1, "[")))

\* storage.rs:5
HISTORY_FILE == "color_history.json"

\* storage.rs:7-18; fault names the one step the OS refuses
get_storage_path(fault) ==
    IF fault = "data_dir" THEN Err("Failed to get app data directory")
    ELSE IF fault = "create_dir" THEN Err("Failed to create app data directory")
    ELSE Ok(HISTORY_FILE)

\* storage.rs:20-31: the result and the file left behind. fs::write creates or
\* truncates the file, then writes: it fails before the file is touched or
\* after it was truncated.
save_color_history(file, colors, fault) ==
    LET path == get_storage_path(fault)
        json == ToStringPretty(colors)
    IN IF ~path.ok THEN [result |-> Err(path.err), file |-> file]
       ELSE IF fault = "open"
       THEN [result |-> Err("Failed to write history file"), file |-> file]
       ELSE IF fault = "write"
       THEN [result |-> Err("Failed to write history file"), file |-> <<<<>>>>]
       ELSE [result |-> Ok(<<>>), file |-> <<json>>]

\* storage.rs:43-46
ParsedHistory(colors) ==
    IF colors.ok THEN Ok(colors.val[1]) ELSE Err("Failed to parse history file")

\* the file read without asking whether it exists
load_color_history_ReadFirst(file, fault) ==
    IF ~get_storage_path(fault).ok THEN get_storage_path(fault)
    ELSE IF file = <<>> \/ fault = "read" THEN Err("Failed to read history file")
    ELSE ParsedHistory(FromStr(file[1]))

\* storage.rs:33-47
load_color_history(file, fault) ==
    IF ~get_storage_path(fault).ok THEN get_storage_path(fault)
    ELSE IF file = <<>> THEN Ok(<<>>)
    ELSE IF fault = "read" THEN Err("Failed to read history file")
    ELSE ParsedHistory(FromStr(file[1]))

\* a storage command returns: only the file may have changed
Stored(ev, request, result, file) ==
    /\ LET f == Reply([Frame EXCEPT !.event = <<request>>], result)
       IN Return(f, ev, "", f.log[Len(f.log)].arg)
    /\ historyFile' = file
    /\ UNCHANGED <<phase, ACTIVE_SHORTCUT, escapeRegistered, restorer, icon, inbox>>

\* lib.rs:66-69
cmd_save_color_history(colors, fault) ==
    /\ phase = "running"
    /\ LET out == save_color_history(historyFile, colors, fault)
       IN Stored("save_color_history", [colors |-> colors, fault |-> fault],
                 out.result, out.file)

\* lib.rs:71-74
cmd_load_color_history(fault) ==
    /\ phase = "running"
    /\ Stored("load_color_history", [fault |-> fault],
              load_color_history(historyFile, fault), historyFile)

\* longest history saved
MaxHistory == 2

PlainEntry == ColorEntry(<<"a">>, <<"#", "0", "A">>, <<0, 9, 255>>, 0, <<>>)

\* quote and backslash in the id, an empty hex, an empty label
EscapedEntry == ColorEntry(<<"\"", "\\">>, <<>>, <<10, 100, 200>>, 1234567890, <<<<>>>>)

\* a line break in the id, a label that reads null
LabelledEntry ==
    ColorEntry(<<"n", "\n", "/">>, <<"\\", "n">>, <<1, 2, 3>>, TimestampMax,
               <<<<"n", "u", "l", "l">>>>)

HistoryEntries == {PlainEntry, EscapedEntry, LabelledEntry}

Histories == UNION {[1..n -> HistoryEntries] : n \in 0..MaxHistory}

SaveFaults == {"none", "data_dir", "create_dir", "open", "write"}

LoadFaults == {"none", "data_dir", "create_dir", "read"}

\* a file written by hand on one line, the label left out
CompactFile ==
    <<"[", "{", "\"", "i", "d", "\"", ":", "\"", "b", "\"", ",",
      "\"", "r", "g", "b", "\"", ":", "[", "1", ",", "2", ",", "3", "]", ",",
      "\"", "h", "e", "x", "\"", ":", "\"", "\"", ",",
      "\"", "t", "i", "m", "e", "s", "t", "a", "m", "p", "\"", ":", "7", "}", "]", "\n">>

\* no file yet, a file cut short, a file written by hand
StoredFiles == {<<>>, <<<<"[", "\n", " ", " ", "{">>>>, <<CompactFile>>}

InitStorage ==
    /\ Boot
    /\ icon = SampleIcon
    /\ inbox = <<>>
    /\ historyFile \in StoredFiles

\* every history saved without a fault, every fault with the short histories
SaveRequests ==
    {[colors |-> h, fault |-> fault] :
        h \in Histories, fault \in SaveFaults} \
    {[colors |-> h, fault |-> fault] :
        h \in {g \in Histories : Len(g) > 1}, fault \in SaveFaults \ {"none"}}

NextStorage ==
    \/ setup({1}, TRUE, TRUE, TRUE)
    \/ \E save \in SaveRequests : cmd_save_color_history(save.colors, save.fault)
    \/ \E fault \in LoadFaults : cmd_load_color_history(fault)

SpecStorage == InitStorage /\ [][NextStorage]_vars

-----------------------------------------------------------------------------
(* Reading the record of the handler that ran last *)

CountCalls(op, arg) ==
    Cardinality({i \in DOMAIN calls : calls[i].op = op /\ calls[i].arg = arg})

CountOp(op) == Cardinality({i \in DOMAIN calls : calls[i].op = op})

CountEmit(name) == CountCalls("emit", name)

\* the handler saw the registered pick shortcut go down
PickHotkeyPressed ==
    /\ last.ev = "shortcut_handler"
    /\ last.event[1].state = "Pressed"
    /\ ACTIVE_SHORTCUT # <<>>
    /\ last.event[1].shortcut = ACTIVE_SHORTCUT[1][1]

EscapePressed ==
    /\ last.ev = "shortcut_handler"
    /\ last.event[1].state = "Pressed"
    /\ last.event[1].shortcut = escape_shortcut

PickEvent == last.ev = "pick_color_now" \/ PickHotkeyPressed

CancelEvent == last.ev = "stop_pick_mode" \/ EscapePressed

StartEvent ==
    \/ last.ev = "start_pick_mode"
    \/ last.ev = "on_menu_event" /\ last.arg = "pick"
    \/ PickHotkeyPressed

QuitEvent == last.ev = "on_menu_event" /\ last.arg = "quit"

WindowShown == mainWindow = "visible" /\ CountCalls("window.show", "main") = 1

\* the handler ended in Idle with the cursor restorer run and the window shown
BackToIdle ==
    /\ ~PICK_MODE_ACTIVE
    /\ last.restored
    /\ ~CURSOR_CHANGED
    /\ WindowShown

\* exactly one color-picked event, carrying the colour the sampler returned
PickedEmitted ==
    /\ last.sampled.ok
    /\ CountEmit("color-picked") = 1
    /\ \E i \in DOMAIN calls :
          /\ calls[i] = Call("emit", "color-picked", last.sampled.val)
          /\ calls[i].payload[1].hex = FormatHex(calls[i].payload[1].rgb[1],
                                                 calls[i].payload[1].rgb[2],
                                                 calls[i].payload[1].rgb[3])

-----------------------------------------------------------------------------
(* C1 *)

\* C1 as stated: every pick event handled in Picking (pick_color_now or the pick
\* hotkey with PICK_MODE_ACTIVE true) ends in Idle: PICK_MODE_ACTIVE false, the
\* restorer run and CURSOR_CHANGED false, the main window shown and a
\* color-picked event with the sampled colour emitted.
C1_PickAlwaysEndsInIdle ==
    (PickEvent /\ last.preActive) => (BackToIdle /\ PickedEmitted)

\* C1, amended: a pick event handled in Picking whose Pixel Sampler call succeeds
\* ends in Idle: PICK_MODE_ACTIVE false, the restorer run and CURSOR_CHANGED
\* false, the main window shown and exactly one color-picked event carrying the
\* sampled colour emitted.
C1_SampledPickEndsInIdle ==
    (PickEvent /\ last.preActive /\ last.sampled.ok) => (BackToIdle /\ PickedEmitted)

\* a successful pick_color_now taken in Picking with the cursor replaced
C1_Witness ==
    /\ last.ev = "pick_color_now"
    /\ last.preActive /\ last.preChanged /\ last.preWindow = "hidden"
    /\ last.sampled.ok
    /\ ~PICK_MODE_ACTIVE

-----------------------------------------------------------------------------
(* C2 *)

\* C2: a cancel handled in Picking (Escape pressed with PICK_MODE_ACTIVE true, or
\* stop_pick_mode) ends in Idle from every reachable Picking state:
\* PICK_MODE_ACTIVE false, CURSOR_CHANGED false, the main window shown, one
\* pick-mode-stopped event emitted and no color-picked event.
C2_CancelEndsInIdle ==
    (CancelEvent /\ last.preActive) =>
        /\ BackToIdle
        /\ CountEmit("pick-mode-stopped") = 1
        /\ CountEmit("color-picked") = 0

\* Escape pressed in Picking while the system cursor was replaced
C2_Witness ==
    /\ EscapePressed
    /\ last.preActive /\ last.preChanged /\ last.preWindow = "hidden"
    /\ ~PICK_MODE_ACTIVE

-----------------------------------------------------------------------------
(* C3 *)

\* C3: a start event handled in Idle, through start_pick_mode, the tray "pick"
\* item or the pick hotkey, ends in Picking: PICK_MODE_ACTIVE true, the main
\* window hidden, set_pick_cursor invoked, exactly one pick-mode-started event
\* emitted and no error returned, whatever the outcome of the cursor install.
C3_StartEndsInPicking ==
    (StartEvent /\ ~last.preActive) =>
        /\ PICK_MODE_ACTIVE
        /\ mainWindow = "hidden" /\ CountCalls("window.hide", "main") = 1
        /\ last.install \in CursorOutcomes
        /\ CountEmit("pick-mode-started") = 1
        /\ last.ret \in {"Ok", ""}

\* start_pick_mode taken in Idle whose cursor install failed at SetSystemCursor
C3_Witness ==
    /\ last.ev = "start_pick_mode"
    /\ ~last.preActive
    /\ last.install = "install_failed"
    /\ PICK_MODE_ACTIVE /\ ~CURSOR_CHANGED

-----------------------------------------------------------------------------
(* C4 *)

\* C4: a color-picked event is emitted only by a pick event that was handled
\* while PICK_MODE_ACTIVE was true.
C4_CommitOnlyInPicking ==
    CountEmit("color-picked") > 0 => (PickEvent /\ last.preActive)

-----------------------------------------------------------------------------
(* C5 *)

\* the handler that ran last called restore_default_cursor (and not the forced
\* variant of setup)
RestoreCalled(l) == l.restored /\ l.ev # "setup"

\* C5: restore_default_cursor issues SPI_SETCURSORS iff CURSOR_CHANGED is true on
\* entry, leaves CURSOR_CHANGED false whatever the OS call reports, and, called
\* again with no install in between, issues no OS call and changes neither the
\* flag nor the system cursor.
C5_RestoreGuardedAndIdempotent ==
    /\ [](RestoreCalled(last) =>
            /\ CountOp("SystemParametersInfoW") = (IF last.preChanged THEN 1 ELSE 0)
            /\ ~CURSOR_CHANGED
            /\ (~last.preChanged => osCursor = last.preOs))
    /\ [][(RestoreCalled(last) /\ RestoreCalled(last') /\ last'.install = "none") =>
            /\ CountOp("SystemParametersInfoW")' = 0
            /\ CURSOR_CHANGED' = CURSOR_CHANGED
            /\ osCursor' = osCursor
            /\ restoresForInstall' = restoresForInstall]_vars

\* a restore whose OS call reported failure, with the flag reset all the same
C5_Witness ==
    /\ RestoreCalled(last)
    /\ last.preChanged
    /\ CountCalls("SystemParametersInfoW", "err") = 1
    /\ ~CURSOR_CHANGED /\ osCursor = "custom"

-----------------------------------------------------------------------------
(* C6 *)

-----------------------------------------------------------------------------
(* C7 *)

\* C7: set_pick_cursor leaves CURSOR_CHANGED true only after SetSystemCursor has
\* succeeded; when it fails at any step CURSOR_CHANGED keeps its value on entry.
C7_FlagSetOnlyAfterInstall ==
    last.install # "none" =>
        /\ (last.install = "installed") = (CountCalls("SetSystemCursor", "ok") = 1)
        /\ (last.install = "installed" => CURSOR_CHANGED)
        /\ (last.install # "installed" => CURSOR_CHANGED = last.preChanged)

\* an install that failed at SetSystemCursor with the flag false on entry
C7_Witness ==
    /\ last.install = "install_failed"
    /\ CountCalls("SetSystemCursor", "err") = 1
    /\ ~last.preChanged /\ ~CURSOR_CHANGED

-----------------------------------------------------------------------------
(* C8 *)

\* C8: on every exit path of set_pick_cursor each native resource acquired has
\* been released once: the screen DC, the colour bitmap, the mask bitmap, and
\* the icon of CreateIconIndirect unless a successful SetSystemCursor took it.
C8_ReleasesMatchAcquires ==
    last.install # "none" =>
        /\ CountCalls("GetDC", "ok") = CountCalls("ReleaseDC", "hdc_screen")
        /\ CountCalls("CreateDIBSection", "ok") = CountCalls("DeleteObject", "color_bmp")
        /\ CountCalls("CreateBitmap", "ok") = CountCalls("DeleteObject", "mask_bmp")
        /\ CountCalls("CreateIconIndirect", "ok") =
              CountCalls("SetSystemCursor", "ok") + CountOp("DestroyIcon")
                  + CountOp("DestroyCursor")

-----------------------------------------------------------------------------
(* C9 *)

\* C9: the process exits only through the tray "Quit" item, and that handler runs
\* the restorer before app.exit(0): the OS restore call is issued, before the
\* exit, iff CURSOR_CHANGED was true; CURSOR_CHANGED is false at the exit; and the
\* system cursor is still replaced at the exit only if an OS restore call of this
\* process reported failure.
C9_QuitRestoresBeforeExit ==
    /\ (phase = "exited") = QuitEvent
    /\ QuitEvent =>
        /\ last.restored
        /\ ~CURSOR_CHANGED
        /\ calls[Len(calls)] = Call("app.exit", "0", <<>>)
        /\ Len(calls) = (IF last.preChanged THEN 2 ELSE 1)
        /\ (last.preChanged => calls[1].op = "SystemParametersInfoW")
        /\ (osCursor = "custom" => osRestoreFailed)

\* Quit chosen in Picking with the cursor replaced: restored, then exited
C9_Witness ==
    /\ QuitEvent
    /\ last.preActive /\ last.preChanged /\ last.preOs = "custom"
    /\ osCursor = "default"
    /\ phase = "exited"

-----------------------------------------------------------------------------
(* C10 *)

\* C10: two concurrent restore_default_cursor calls never both see the flag set:
\* at most one thread is inside the guarded branch at a time, and the OS restore
\* call is issued at most once per successful install.
C10_RestoreOncePerInstall ==
    /\ Cardinality({t \in Threads : restorer[t] # "idle"}) <= 1
    /\ restoresForInstall <= 1

-----------------------------------------------------------------------------
(* Reading the record of a zoom preview *)

ZoomReturned == last.ev = "capture_zoom_preview"

\* what the call was given and what the OS answered
ZoomRequest == last.event[1]

ZoomReply == calls[Len(calls)]

ZoomOk == ZoomReturned /\ ZoomReply.arg = "Ok"

\* the ZoomPreviewData of a successful call
ZoomResult == ZoomReply.payload[1]

\* the pointer was read
ZoomPointerKnown == ZoomReturned /\ ZoomRequest.env.cursor # <<>>

ZoomPointer == ZoomRequest.env.cursor[1]

\* origin <= p < origin + extent on both axes
Inside(p, d) ==
    /\ d.x <= p[1] /\ p[1] < d.x + d.width
    /\ d.y <= p[2] /\ p[2] < d.y + d.height

SomeDisplayContains(p, monitors) == \E i \in DOMAIN monitors : Inside(p, monitors[i])

NoContainingDisplay == "Could not find monitor containing cursor"

-----------------------------------------------------------------------------
(* C11 *)

\* C11: whenever capture_zoom_preview crops, the rectangle it crops lies inside
\* the selected display in the display's local coordinates: 0 <= x, 0 <= y,
\* x + width <= display.width and y + height <= display.height; the selected
\* display contains the pointer.
C11_CaptureRectInsideDisplay ==
    ZoomReturned =>
        \A i \in DOMAIN calls :
            calls[i].op = "crop_imm" =>
                LET d == calls[i].payload[1].monitor
                    r == calls[i].payload[1].rect
                IN /\ Inside(ZoomPointer, d)
                   /\ 0 <= r.x /\ 0 <= r.y
                   /\ r.x + r.width <= d.width
                   /\ r.y + r.height <= d.height

\* the pointer on the far corner pixel of a display that does not start at the
\* origin, with a size that reaches over both far edges and both near edges
C11_Witness ==
    /\ ZoomOk
    /\ LET d == ZoomResult.image_data.monitor
           r == ZoomResult.image_data.rect
       IN /\ d.x # 0 /\ d.y # 0
          /\ ZoomPointer = <<d.x + d.width - 1, d.y + d.height - 1>>
          /\ r.x = 0 /\ r.y = 0
          /\ r.width = d.width /\ r.height = d.height
          /\ ZoomRequest.size > 2 * d.width /\ ZoomRequest.size > 2 * d.height

-----------------------------------------------------------------------------
(* C12 *)

FullHDCorner ==
    /\ ZoomOk
    /\ ZoomRequest.monitors = <<FullHD>>
    /\ ZoomPointer = <<1919, 1079>>
    /\ ZoomRequest.size = 500

\* C12 as stated: the pointer on the bottom-right corner pixel (1919,1079) of a
\* 1920x1080 display at the origin, size 500: the call returns width 1, height 1.
C12_CornerGivesOneByOne ==
    FullHDCorner => ZoomResult.width = 1 /\ ZoomResult.height = 1

\* C12: the pointer on the bottom-right corner pixel (1919,1079) of a 1920x1080
\* display at the origin, size 500: the rectangle starts at (1669, 829) and the
\* call returns width 251 and height 251.
C12_CornerGivesHalfPlusOne ==
    FullHDCorner =>
        /\ ZoomResult.image_data.rect.x = 1669
        /\ ZoomResult.image_data.rect.y = 829
        /\ ZoomResult.width = 251 /\ ZoomResult.height = 251

C12_Witness == FullHDCorner /\ ZoomResult.width = 251

-----------------------------------------------------------------------------
(* C13 *)

\* C13: the width and height returned are those of the cropped rectangle: per
\* axis the origin is max(rel - size/2, 0) with rel = pointer - display.origin,
\* the returned extent is min(size, display.extent - origin) and never more
\* than size; with the pointer on the top-left corner the origin is 0 and the
\* width is min(size, display.width).
C13_ReturnsClampedExtent ==
    ZoomOk =>
        LET d == ZoomResult.image_data.monitor
            r == ZoomResult.image_data.rect
            size == ZoomRequest.size
            rel_x == ZoomPointer[1] - d.x
            rel_y == ZoomPointer[2] - d.y
            ox == IF rel_x - (size \div 2) > 0 THEN rel_x - (size \div 2) ELSE 0
            oy == IF rel_y - (size \div 2) > 0 THEN rel_y - (size \div 2) ELSE 0
        IN /\ r.x = ox /\ r.y = oy
           /\ ZoomResult.width = (IF size < d.width - ox THEN size ELSE d.width - ox)
           /\ ZoomResult.height = (IF size < d.height - oy THEN size ELSE d.height - oy)
           /\ ZoomResult.width = r.width /\ ZoomResult.height = r.height
           /\ ZoomResult.width <= size /\ ZoomResult.height <= size
           /\ (rel_x = 0 =>
                /\ r.x = 0
                /\ ZoomResult.width = (IF size < d.width THEN size ELSE d.width))

\* the pointer on the top-left corner, the size larger than the display is wide
\* and smaller than it is high
C13_Witness ==
    /\ ZoomOk
    /\ LET d == ZoomResult.image_data.monitor
       IN /\ ZoomPointer = <<d.x, d.y>>
          /\ ZoomRequest.size > d.width
          /\ ZoomRequest.size < d.height
          /\ ZoomResult.width = d.width
          /\ ZoomResult.height = ZoomRequest.size

-----------------------------------------------------------------------------
(* C14 *)

\* C14 as stated: for every pointer outside all enumerated displays the call
\* fails with NoContainingDisplay and captures nothing; it never fails with that
\* error when a display contains the pointer.
C14_OutsideAlwaysNoContainingDisplay ==
    ZoomPointerKnown =>
        IF SomeDisplayContains(ZoomPointer, ZoomRequest.monitors)
        THEN last.ret # NoContainingDisplay
        ELSE last.ret = NoContainingDisplay /\ CountOp("capture_image") = 0

\* C14: for every pointer outside all displays the call fails and captures
\* nothing, and the error is NoContainingDisplay whenever the Pixel Sampler and
\* the enumeration of the displays succeeded; it never fails with that error
\* when a display contains the pointer.
C14_OutsideFailsWithoutCapture ==
    ZoomPointerKnown =>
        IF SomeDisplayContains(ZoomPointer, ZoomRequest.monitors)
        THEN last.ret # NoContainingDisplay
        ELSE /\ last.ret # "Ok"
             /\ CountOp("capture_image") = 0
             /\ (/\ ZoomRequest.env.dcValid
                 /\ ZoomRequest.env.pixel # CLR_INVALID
                 /\ ZoomRequest.monitorsOk) => last.ret = NoContainingDisplay

\* the pointer one past the right edge of the only display
C14_Witness ==
    /\ ZoomPointerKnown
    /\ Len(ZoomRequest.monitors) = 1
    /\ LET d == ZoomRequest.monitors[1]
       IN ZoomPointer = <<d.x + d.width, d.y>>
    /\ last.ret = NoContainingDisplay
    /\ CountOp("capture_image") = 0

-----------------------------------------------------------------------------
(* C15 *)

\* the hover sampling returned a ColorInfo
SampledOk == last.ev = "get_color_at_cursor" /\ last.sampled.ok

UpperHexChars == {"0", "1", "2", "3", "4", "5", "6", "7",
                  "8", "9", "A", "B", "C", "D", "E", "F"}

HexValue(ch) == CHOOSE v \in 0..15 : HexDigits[v + 1] = ch

\* the triple that "#RRGGBB" denotes
ParseHex(hex) ==
    <<16 * HexValue(hex[2]) + HexValue(hex[3]),
      16 * HexValue(hex[4]) + HexValue(hex[5]),
      16 * HexValue(hex[6]) + HexValue(hex[7])>>

\* info is the canonical reading of the COLORREF 0x00BBGGRR
CanonicalColor(pixel, info) ==
    /\ info.rgb = <<pixel % 256, (pixel \div 256) % 256, (pixel \div 65536) % 256>>
    /\ Len(info.hex) = 7
    /\ info.hex[1] = "#"
    /\ \A k \in 2..7 : info.hex[k] \in UpperHexChars
    /\ ParseHex(info.hex) = info.rgb

\* C15: for every COLORREF 0x00BBGGRR the OS returns, the ColorInfo of
\* get_color_at_cursor and the center_color of capture_zoom_preview have
\* rgb = [RR, GG, BB] and a hex string that is '#' followed by six uppercase hex
\* digits which parse back to that triple.
C15_HexIsCanonicalRgb ==
    /\ SampledOk => CanonicalColor(last.event[1].pixel, last.sampled.val[1])
    /\ ZoomOk => CanonicalColor(ZoomRequest.env.pixel, ZoomResult.center_color)

\* COLORREF 0x0010FF0A under the pointer of a zoom preview: red 10, green 255,
\* blue 16
C15_Witness ==
    /\ ZoomOk
    /\ ZoomRequest.env.pixel = 1113866
    /\ ZoomResult.center_color.rgb = <<10, 255, 16>>
    /\ ZoomResult.center_color.hex = <<"#", "0", "A", "F", "F", "1", "0">>

-----------------------------------------------------------------------------
(* C16 *)

\* the bytes set_pick_cursor stored into the DIB section, <<>> if it stored none
DibBytes ==
    IF \E i \in DOMAIN calls : calls[i].op = "dib.write"
    THEN calls[CHOOSE i \in DOMAIN calls : calls[i].op = "dib.write"].payload
    ELSE <<>>

DibWritten == CountOp("dib.write") = 1

\* C16: for every source pixel (r, g, b, a) of the icon, set_pick_cursor writes
\* the destination pixel (floor(b*a/255), floor(g*a/255), floor(r*a/255), a) in
\* that byte order: alpha 255 leaves the colour channels unchanged, alpha 0
\* makes them 0, alpha 128 gives floor(c*128/255), the alpha byte is carried
\* through, and no colour channel exceeds alpha or leaves 0..255.
C16_PremultipliedBgra ==
    DibWritten =>
        /\ Len(DibBytes) = Len(icon)
        /\ \A p \in 0..((Len(icon) \div 4) - 1) :
            LET r == icon[4 * p + 1]
                g == icon[4 * p + 2]
                b == icon[4 * p + 3]
                a == icon[4 * p + 4]
                d == [k \in 1..4 |-> DibBytes[4 * p + k]]
            IN /\ d = <<(b * a) \div 255, (g * a) \div 255, (r * a) \div 255, a>>
               /\ (a = 255 => d = <<b, g, r, 255>>)
               /\ (a = 0 => d = <<0, 0, 0, 0>>)
               /\ (a = 128 =>
                    d = <<(b * 128) \div 255, (g * 128) \div 255, (r * 128) \div 255, 128>>)
               /\ \A k \in 1..3 : d[k] <= a /\ d[k] \in 0..255

\* the half-transparent pixel (255, 127, 1, 128) is stored as (0, 63, 128, 128)
C16_Witness ==
    /\ last.ev = "start_pick_mode"
    /\ DibWritten
    /\ icon = <<255, 127, 1, 128>>
    /\ DibBytes = <<0, 63, 128, 128>>

-----------------------------------------------------------------------------
(* C17 *)

LoadEvent == last.ev = "load_color_history"

SaveEvent == last.ev = "save_color_history"

\* the sequence a successful load returned
Loaded == calls[Len(calls)].payload[1]

\* C17 as stated: whenever the history file does not exist, load_color_history
\* returns an empty sequence and never an error.
C17_MissingFileLoadsEmpty ==
    (LoadEvent /\ historyFile = <<>>) => (last.ret = "Ok" /\ Loaded = <<>>)

\* C17: whenever the history file does not exist and the storage path was
\* resolved (the app data directory found and created), load_color_history
\* returns an empty sequence and no error, without reading; when the path was
\* not resolved it returns that error.
C17_MissingFileLoadsEmptyOncePathResolved ==
    (LoadEvent /\ historyFile = <<>>) =>
        IF last.event[1].fault \in {"data_dir", "create_dir"}
        THEN last.ret = get_storage_path(last.event[1].fault).err
        ELSE last.ret = "Ok" /\ Loaded = <<>>

\* the first load of a process that has saved nothing
C17_Witness ==
    /\ LoadEvent
    /\ historyFile = <<>>
    /\ last.event[1].fault = "none"
    /\ last.ret = "Ok" /\ Loaded = <<>>

-----------------------------------------------------------------------------
(* C18 *)

\* C18: a load_color_history that follows a successful save_color_history, its
\* own file access succeeding, returns the sequence that save was given: same
\* entries, same order, same fields, for the empty sequence and for entries
\* without a label as well; the save before it may itself have replaced an
\* earlier one.
C18_SaveThenLoadRoundTrip ==
    [][(/\ SaveEvent /\ last.ret = "Ok"
        /\ last'.ev = "load_color_history"
        /\ last'.event[1].fault = "none")
            => /\ last'.ret = "Ok"
               /\ calls'[Len(calls')].payload[1] = last.event[1].colors]_vars

\* two entries came back: quote and backslash in the id with an empty label,
\* then the entry without a label
C18_Witness ==
    /\ LoadEvent
    /\ last.ret = "Ok"
    /\ Loaded = <<EscapedEntry, PlainEntry>>
    /\ Loaded[1].label = <<<<>>>> /\ Loaded[2].label = <<>>


-----------------------------------------------------------------------------
(* C19 *)

\* C19: handlers run one at a time, so every state is one between handlers:
\* whenever PICK_MODE_ACTIVE is false, CURSOR_CHANGED is false too, after any
\* sequence of start, pick, cancel, stop, tray and hotkey events.
C19_IdleImpliesCursorNotReplaced == ~PICK_MODE_ACTIVE => ~CURSOR_CHANGED

\* Escape pressed in Picking with the cursor replaced: Idle, flag cleared
C19_Witness ==
    /\ EscapePressed
    /\ last.preActive /\ last.preChanged
    /\ ~PICK_MODE_ACTIVE /\ ~CURSOR_CHANGED
    /\ phase = "running"

-----------------------------------------------------------------------------
(* C20 *)

\* the pick hotkey went down in Picking
HotkeyPickEvent == PickHotkeyPressed /\ last.preActive

\* a pick whose Pixel Sampler call failed
SamplerFailedPick ==
    /\ last.ev = "pick_color_now" \/ HotkeyPickEvent
    /\ last.sampled # NotCalled
    /\ ~last.sampled.ok

\* C20: a pick (the pick_color_now command, or the pick hotkey in Picking) whose
\* Pixel Sampler call fails changes nothing: PICK_MODE_ACTIVE, CURSOR_CHANGED,
\* the window's visibility and the OS cursor keep their values, the Cursor
\* Restorer is not called, nothing is emitted; the command returns the
\* sampler's error and the hotkey handler returns nothing.  Every pick samples.
C20_FailedSampleChangesNothing ==
    /\ (last.ev = "pick_color_now" \/ HotkeyPickEvent) => last.sampled # NotCalled
    /\ SamplerFailedPick =>
        /\ PICK_MODE_ACTIVE = last.preActive
        /\ CURSOR_CHANGED = last.preChanged
        /\ mainWindow = last.preWindow
        /\ osCursor = last.preOs
        /\ ~last.restored
        /\ CountEmit("color-picked") = 0
        /\ CountEmit("pick-mode-stopped") = 0
        /\ calls = <<>>
        /\ (last.ev = "pick_color_now" =>
                last.ret = last.sampled.err /\ last.ret # "Ok")
        /\ (HotkeyPickEvent => last.ret = "")

\* the pick hotkey in Picking, cursor replaced and window hidden, GetPixel
\* answering CLR_INVALID: still Picking
C20_Witness ==
    /\ HotkeyPickEvent
    /\ last.sampled = Err("Failed to get pixel color")
    /\ last.preChanged /\ last.preWindow = "hidden"
    /\ PICK_MODE_ACTIVE /\ CURSOR_CHANGED /\ mainWindow = "hidden"


-----------------------------------------------------------------------------
(* C21 *)

\* Escape went down while the controller was Idle
EscapeInIdle == EscapePressed /\ ~last.preActive

\* a shortcut event other than a key press
NotPressedEvent ==
    /\ last.ev = "shortcut_handler"
    /\ last.event[1].state # "Pressed"

\* C21: an Escape press handled in Idle, and any shortcut event whose state is
\* not Pressed, changes nothing: PICK_MODE_ACTIVE, CURSOR_CHANGED, the window's
\* visibility and the OS cursor keep their values, nothing is sampled, no OS
\* call is issued and no event is emitted.
C21_IgnoredShortcutChangesNothing ==
    (EscapeInIdle \/ NotPressedEvent) =>
        /\ PICK_MODE_ACTIVE = last.preActive
        /\ CURSOR_CHANGED = last.preChanged
        /\ mainWindow = last.preWindow
        /\ osCursor = last.preOs
        /\ calls = <<>>
        /\ ~last.restored
        /\ last.sampled = NotCalled
        /\ last.install = "none"

\* Escape pressed in Idle after a pick mode was left: still Idle, nothing called
C21_Witness ==
    /\ EscapeInIdle
    /\ restoresForInstall > 0
    /\ ~PICK_MODE_ACTIVE /\ ~CURSOR_CHANGED
    /\ calls = <<>>

\* the Escape key released in Picking with the cursor replaced: still Picking
C21_ReleasedInPicking ==
    /\ NotPressedEvent
    /\ last.event[1].shortcut = escape_shortcut
    /\ last.preActive /\ last.preChanged
    /\ PICK_MODE_ACTIVE /\ CURSOR_CHANGED


-----------------------------------------------------------------------------
(* C22 *)

\* C22: for every requested size >= 1, the rectangle capture_zoom_preview crops
\* contains the pointer's own pixel, origin_x <= rel_x < origin_x + width and
\* origin_y <= rel_y < origin_y + height in the selected display's coordinates,
\* and the width and height it returns are at least 1.
C22_CaptureRectContainsPointer ==
    /\ (ZoomReturned /\ ZoomRequest.size >= 1) =>
        \A i \in DOMAIN calls :
            calls[i].op = "crop_imm" =>
                LET d == calls[i].payload[1].monitor
                    r == calls[i].payload[1].rect
                    rel_x == ZoomPointer[1] - d.x
                    rel_y == ZoomPointer[2] - d.y
                IN /\ r.x <= rel_x /\ rel_x < r.x + r.width
                   /\ r.y <= rel_y /\ rel_y < r.y + r.height
    /\ (ZoomOk /\ ZoomRequest.size >= 1) =>
        /\ ZoomResult.width >= 1
        /\ ZoomResult.height >= 1

\* size 1 with the pointer on the far corner pixel of a display larger than
\* one pixel: the rectangle is that pixel
C22_Witness ==
    /\ ZoomOk
    /\ ZoomRequest.size = 1
    /\ LET d == ZoomResult.image_data.monitor
           r == ZoomResult.image_data.rect
       IN /\ d.width > 1 /\ d.height > 1
          /\ ZoomPointer = <<d.x + d.width - 1, d.y + d.height - 1>>
          /\ r = [x |-> d.width - 1, y |-> d.height - 1, width |-> 1, height |-> 1]

====
